---- MODULE Spec2Model ----
(***************************************************************************)
(* Annalink: a small proof-of-work node.  The model follows the chain      *)
(* manager (annalink/core/blockchain.py), the block and transaction        *)
(* records, the proof-of-work engine and the message handlers of the node. *)
(*                                                                         *)
(* SHA-256 is modelled as an injective function: a digest IS its canonical *)
(* pre-image (a tuple).  The hex prefix the proof of work looks at is the  *)
(* low-order part of HashNum(digest), a number of HashDigits digits in     *)
(* base HashBase; incrementing the nonce walks through all of them.        *)
(* ECDSA is modelled symbolically: a signature is the pair <<key, msg>>.   *)
(* Amounts are whole coins.  The store is the blocks table, one row per    *)
(* index; Init and the actions describe a node whose store accepted the    *)
(* schema, and initialize_db says what the schema statement does.          *)
(***************************************************************************)
EXTENDS Integers, Sequences, FiniteSets, TLC

VARIABLES chain, pending_transactions, difficulty, mining_reward, db, last_call, restarts,
          peers, connections, outbound

vars == <<chain, pending_transactions, difficulty, mining_reward, db, last_call, restarts,
          peers, connections, outbound>>

(* ------------------------------ bounds -------------------------------- *)
HashBase == 2
HashDigits == 4
MaxTime == 2
MaxChain == 3
MaxAmount == 2
MaxPeerBlocks == 2
MaxRestarts == 1
(* PeerManager(max_peers): the capacity the registry is constructed with *)
max_peers == 2
MaxPowChain == 12
MaxNetChain == 2
MaxLongChain == 52

(* ------------------------- program constants -------------------------- *)
AddressLength == 34
DefaultDifficulty == 4
BaseReward == 50
HalvingInterval == 210000
AdjustmentInterval == 10
TargetBlockTime == 600
MaxDifficulty == 256
GetBlocksLimit == 50
(* the largest float is below 2 ^ 1024 *)
FloatMaxExponent == 1024

(* ----------------------------- addresses ------------------------------ *)
Sentinel == "0000000000000000000000000000000000"
AddrA == "1AliceAAAAAAAAAAAAAAAAAAAAAAAAAAAA"
AddrB == "1BobBBBBBBBBBBBBBBBBBBBBBBBBBBBBBB"
AddrC == "1CarolCCCCCCCCCCCCCCCCCCCCCCCCCCCC"
ShortAddr == "invalid"

(* None for the optional string fields; "" is the other falsy string. *)
None == "None"
NoSignature == <<>>
GenesisPreviousHash == <<>>

Falsy(s) == s = None \/ s = ""

(* key pairs: the private key is named, the public key is its hex form *)
PrivateKeys == {"kA", "kB", "kC"}
public_key_hex(k) == IF k = "kA" THEN "pubA" ELSE IF k = "kB" THEN "pubB" ELSE "pubC"
PublicKeys == {public_key_hex(k) : k \in PrivateKeys}
PrivateKeyOf(pk) == CHOOSE k \in PrivateKeys : public_key_hex(k) = pk

Timestamps == 1..MaxTime

(* --------------------------- Transaction ------------------------------ *)
(* the canonical JSON pre-image shared by txid, sign and verify *)
tx_data(sender, receiver, amount, fee, timestamp, public_key) ==
    <<sender, receiver, amount, fee, timestamp, public_key>>

calculate_txid(tx) ==
    tx_data(tx.sender, tx.receiver, tx.amount, tx.fee, tx.timestamp, tx.public_key)

(* Transaction.__init__: a falsy timestamp (None or 0) is replaced by the clock *)
Transaction(sender, receiver, amount, fee, timestamp, signature, public_key, now) ==
    LET ts == IF timestamp = 0 THEN now ELSE timestamp
    IN  [sender |-> sender, receiver |-> receiver, amount |-> amount, fee |-> fee,
         timestamp |-> ts, signature |-> signature, public_key |-> public_key,
         txid |-> tx_data(sender, receiver, amount, fee, ts, public_key)]

tx_to_dict(tx) == tx

tx_from_dict(data, now) ==
    Transaction(data.sender, data.receiver, data.amount, data.fee, data.timestamp,
                data.signature, data.public_key, now)

ecdsa_sign(k, msg) == <<k, msg>>

(* Transaction.sign: sets public_key when absent; txid is not recomputed *)
sign(tx, k) ==
    LET pk == IF Falsy(tx.public_key) THEN public_key_hex(k) ELSE tx.public_key
    IN  [tx EXCEPT !.public_key = pk,
                   !.signature = ecdsa_sign(k, tx_data(tx.sender, tx.receiver, tx.amount,
                                                       tx.fee, tx.timestamp, pk))]

verify_signature_AnyMessage(tx) ==
    /\ tx.signature # NoSignature
    /\ ~Falsy(tx.public_key)
    /\ tx.public_key \in PublicKeys
    /\ Len(tx.signature) = 2
    /\ tx.signature[1] = PrivateKeyOf(tx.public_key)

verify_signature(tx) ==
    /\ tx.signature # NoSignature
    /\ ~Falsy(tx.public_key)
    /\ tx.public_key \in PublicKeys
    /\ tx.signature = ecdsa_sign(PrivateKeyOf(tx.public_key),
                                 tx_data(tx.sender, tx.receiver, tx.amount, tx.fee,
                                         tx.timestamp, tx.public_key))

tx_is_valid(tx) ==
    /\ ~(tx.amount <= 0 \/ tx.fee < 0)
    /\ ~(tx.sender = "" \/ tx.receiver = "")
    /\ ~(Len(tx.sender) # AddressLength \/ Len(tx.receiver) # AddressLength)
    /\ ~Falsy(tx.public_key)
    /\ verify_signature(tx)

IsCoinbase(tx) == tx.sender = Sentinel

(* ------------------------------- Block -------------------------------- *)
txids(transactions) == [i \in 1..Len(transactions) |-> transactions[i].txid]

calculate_hash(b) ==
    <<b.index, b.timestamp, txids(b.transactions), b.previous_hash, b.nonce, b.difficulty>>

HashSpace == HashBase ^ HashDigits

RECURSIVE SumSeq(_)
SumSeq(s) == IF s = <<>> THEN 0 ELSE Head(s) + SumSeq(Tail(s))

RECURSIVE HashNum(_)
HashNum(h) ==
    IF h = <<>> THEN 0
    ELSE (3 * h[1] + 5 * h[2] + 7 * h[6] + 11 * Len(h[3])
          + SumSeq([i \in 1..Len(h[3]) |-> h[3][i][3] + 2 * h[3][i][4] + h[3][i][5]])
          + 13 * HashNum(h[4]) + h[5]) % HashSpace

(* hash[:d] == '0' * d *)
HashPrefixIsZeros(h, d) ==
    IF d <= 0 THEN d = 0
    ELSE d <= HashDigits /\ HashNum(h) % (HashBase ^ d) = 0

(* Block.__init__ *)
Block(index, transactions, previous_hash, timestamp, nonce, diff, now) ==
    LET b == [index |-> index,
              timestamp |-> IF timestamp = 0 THEN now ELSE timestamp,
              transactions |-> transactions, previous_hash |-> previous_hash,
              nonce |-> nonce, difficulty |-> diff]
    IN  [index |-> b.index, timestamp |-> b.timestamp, transactions |-> b.transactions,
         previous_hash |-> b.previous_hash, nonce |-> b.nonce, difficulty |-> b.difficulty,
         hash |-> calculate_hash(b)]

block_to_dict(b) == [b EXCEPT !.transactions = [i \in 1..Len(b.transactions) |->
                                                   tx_to_dict(b.transactions[i])]]

(* Block.from_dict: the 'hash' and 'txid' entries of the dict are not read *)
block_from_dict(data, now) ==
    Block(data.index,
          [i \in 1..Len(data.transactions) |-> tx_from_dict(data.transactions[i], now)],
          data.previous_hash, data.timestamp, data.nonce, data.difficulty, now)

AllTxValid_Unchecked(transactions) == TRUE

AllTxValid(transactions) == \A i \in 1..Len(transactions) : tx_is_valid(transactions[i])

PreviousHashMatches_Unchecked(b, previous_block) == TRUE

PreviousHashMatches(b, previous_block) == b.previous_hash = previous_block.hash

(* Block.is_valid(previous_block) *)
block_is_valid(b, previous_block) ==
    /\ b.hash = calculate_hash(b)
    /\ HashPrefixIsZeros(b.hash, b.difficulty)
    /\ AllTxValid(b.transactions)
    /\ PreviousHashMatches(b, previous_block)

(* --------------------------- ProofOfWork ------------------------------ *)
(* the loop of mine_block when it is not cut by the 300 s timeout *)
RECURSIVE mine_loop(_, _)
mine_loop(b, d) ==
    IF HashPrefixIsZeros(b.hash, d) THEN b
    ELSE LET n == [b EXCEPT !.nonce = b.nonce + 1]
         IN  mine_loop([n EXCEPT !.hash = calculate_hash(n)], d)

(* the loop can end only when some nonce meets the target *)
CanMine(d) == d <= HashDigits

validate_proof(b) == HashPrefixIsZeros(b.hash, b.difficulty)

(* 50.0 / (2 ** halvings) divides a float by an int: the int is converted to *)
(* a float first, and from 2 ** 1024 on the conversion raises OverflowError  *)
get_mining_reward_raises(block_height) ==
    block_height \div HalvingInterval >= FloatMaxExponent

(* the value returned, in whole coins: exact up to the first halving, which *)
(* is as far as the heights of the model's chains go                       *)
get_mining_reward(block_height) ==
    LET halvings == block_height \div HalvingInterval
    IN  BaseReward \div (2 ^ halvings)

calculate_difficulty_WholeChain(blocks, d) ==
    IF Len(blocks) < AdjustmentInterval + 1 THEN d
    ELSE LET actual_time == blocks[Len(blocks)].timestamp - blocks[1].timestamp
             expected_time == TargetBlockTime * (AdjustmentInterval - 1)
         IN  IF 2 * actual_time < expected_time
             THEN (IF d + 1 < MaxDifficulty THEN d + 1 ELSE MaxDifficulty)
             ELSE IF actual_time > expected_time * 2
                  THEN (IF d - 1 > 1 THEN d - 1 ELSE 1)
                  ELSE d

calculate_difficulty(blocks, d) ==
    IF Len(blocks) < AdjustmentInterval + 1 THEN d
    ELSE LET recent_blocks == SubSeq(blocks, Len(blocks) - AdjustmentInterval + 1, Len(blocks))
             actual_time == recent_blocks[Len(recent_blocks)].timestamp - recent_blocks[1].timestamp
             expected_time == TargetBlockTime * (AdjustmentInterval - 1)
         IN  IF 2 * actual_time < expected_time
             THEN (IF d + 1 < MaxDifficulty THEN d + 1 ELSE MaxDifficulty)
             ELSE IF actual_time > expected_time * 2
                  THEN (IF d - 1 > 1 THEN d - 1 ELSE 1)
                  ELSE d

(* ---------------------------- Blockchain ------------------------------ *)
get_latest_block(c) == c[Len(c)]

TxDelta(tx, address) ==
    (IF tx.receiver = address THEN tx.amount ELSE 0)
    - (IF tx.sender = address THEN tx.amount + tx.fee ELSE 0)

BlockDelta(b, address) ==
    SumSeq([i \in 1..Len(b.transactions) |-> TxDelta(b.transactions[i], address)])

get_balance(c, address) == SumSeq([j \in 1..Len(c) |-> BlockDelta(c[j], address)])

HasPendingFrom_Unchecked(pending, sender) == FALSE

HasPendingFrom(pending, sender) == \E i \in 1..Len(pending) : pending[i].sender = sender

HasSufficientBalance_Unchecked(c, tx) == TRUE

HasSufficientBalance(c, tx) == ~(get_balance(c, tx.sender) < tx.amount + tx.fee)

add_transaction_NoMempoolCheck(c, pending, tx) ==
    IF ~tx_is_valid(tx) THEN [pending |-> pending, ret |-> "False"]
    ELSE [pending |-> Append(pending, tx), ret |-> "True"]

(* Blockchain.add_transaction: the mempool after the call and the value returned *)
add_transaction(c, pending, tx) ==
    IF ~tx_is_valid(tx) THEN [pending |-> pending, ret |-> "False"]
    ELSE IF ~HasSufficientBalance(c, tx) THEN [pending |-> pending, ret |-> "False"]
    ELSE IF HasPendingFrom(pending, tx.sender) THEN [pending |-> pending, ret |-> "False"]
    ELSE [pending |-> Append(pending, tx), ret |-> "True"]

save_block_Skipped(store, b) == store

save_block(store, b) == (b.index :> block_to_dict(b)) @@ store

add_block_AtIndex(c, store, b) ==
    IF block_is_valid(b, get_latest_block(c))
    THEN [chain |-> SubSeq(c, 1, IF b.index < Len(c) THEN b.index ELSE Len(c)) \o <<b>>,
          db |-> save_block(store, b), ret |-> "True"]
    ELSE [chain |-> c, db |-> store, ret |-> "False"]

(* Blockchain.add_block: chain and store after the call and the value returned *)
add_block(c, store, b) ==
    IF block_is_valid(b, get_latest_block(c))
    THEN [chain |-> Append(c, b), db |-> save_block(store, b), ret |-> "True"]
    ELSE [chain |-> c, db |-> store, ret |-> "False"]

is_chain_valid(c) == \A i \in 2..Len(c) : block_is_valid(c[i], c[i-1])

(* BlockchainDatabase.initialize_db.  The CREATE TABLE blocks statement names *)
(* its columns without quotes; sqlite3 raises OperationalError for a column   *)
(* whose name is one of its reserved words.                                   *)
BlocksColumns ==
    <<"index", "timestamp", "previous_hash", "nonce", "hash", "difficulty", "data">>

SqliteReserved ==
    {"index", "table", "select", "from", "where", "order", "group", "values",
     "primary", "references", "create", "insert", "into", "unique", "default"}

initialize_db ==
    IF \E i \in 1..Len(BlocksColumns) : BlocksColumns[i] \in SqliteReserved
    THEN "OperationalError" ELSE "None"

(* the rows of the blocks table in ORDER BY index *)
RECURSIVE OrderByIndex(_)
OrderByIndex(store) ==
    IF DOMAIN store = {} THEN <<>>
    ELSE LET first == CHOOSE i \in DOMAIN store : \A j \in DOMAIN store : i <= j
         IN  <<store[first]>> \o OrderByIndex([j \in DOMAIN store \ {first} |-> store[j]])

(* BlockchainDatabase.load_all_blocks *)
load_all_blocks(store, now) ==
    LET rows == OrderByIndex(store)
    IN  [i \in 1..Len(rows) |-> block_from_dict(rows[i], now)]

(* Blockchain.create_genesis_block under the engine difficulty d, at clock value now *)
create_genesis_block(d, now) ==
    LET genesis_tx == Transaction(Sentinel, Sentinel, 0, 0, 0, NoSignature, None, now)
    IN  mine_loop(Block(0, <<genesis_tx>>, GenesisPreviousHash, 0, 0, DefaultDifficulty, now), d)

InitDifficulties == {1, DefaultDifficulty}

(* the last call made on the node: operation, value returned or exception *)
(* raised, and for add_transaction whether the argument was in the mempool *)
Call(op, ret, resubmitted) == [op |-> op, ret |-> ret, resubmitted |-> resubmitted]

Init ==
    \E d \in InitDifficulties, now \in {1} :
        LET genesis_block == create_genesis_block(d, now)
        IN  /\ chain = <<genesis_block>>
            /\ pending_transactions = <<>>
            /\ difficulty = d
            /\ mining_reward = BaseReward
            /\ db = save_block(<<>>, genesis_block)
            /\ last_call = Call("__init__", "None", FALSE)
            /\ restarts = 0
            /\ peers = <<>>
            /\ connections = {}
            /\ outbound = <<>>

(* --------------------------- PeerManager ------------------------------ *)
(* Peer(host, port): last_seen = 0.0, connected = False *)
Peer(host, port) == [host |-> host, port |-> port, last_seen |-> 0, connected |-> FALSE]

(* Peer.__str__, the registry key "host:port" *)
PeerKey(p) == <<p.host, p.port>>

(* the registry is the dict self.peers in insertion order *)
KnownKeys(reg) == {PeerKey(reg[i]) : i \in 1..Len(reg)}

(* self.peers[key] = peer *)
DictSet(reg, p) ==
    IF PeerKey(p) \in KnownKeys(reg)
    THEN [i \in 1..Len(reg) |-> IF PeerKey(reg[i]) = PeerKey(p) THEN p ELSE reg[i]]
    ELSE Append(reg, p)

add_peer_Unguarded(reg, p) == DictSet(reg, p)

add_peer(reg, p) ==
    IF PeerKey(p) \notin KnownKeys(reg) /\ Len(reg) < max_peers
    THEN DictSet(reg, p) ELSE reg

remove_peer(reg, p) ==
    LET Others(q) == PeerKey(q) # PeerKey(p) IN SelectSeq(reg, Others)

get_connected_peers(reg) ==
    LET Connected(q) == q.connected IN SelectSeq(reg, Connected)

get_known_peers(reg) == reg

(* PeerManager.update_peer_status at loop time now *)
update_peer_status(reg, p, connected, now) ==
    [i \in 1..Len(reg) |->
        IF PeerKey(reg[i]) = PeerKey(p)
        THEN [reg[i] EXCEPT !.connected = connected, !.last_seen = now]
        ELSE reg[i]]

(* int(port) of a seed: the decimal strings and their values *)
IsDecimal(s) == s \in {"8333", "8334"}
ParseInt(s) == IF s = "8333" THEN 8333 ELSE 8334

(* PeerManager.discover_peers; a seed is given as seed.split(':'), and a seed *)
(* of other than two parts or with a port that is no number raises the       *)
(* ValueError the loop catches                                               *)
RECURSIVE discover_peers(_, _)
discover_peers(reg, seed_nodes) ==
    IF seed_nodes = <<>> THEN reg
    ELSE LET seed == Head(seed_nodes)
             after == IF Len(seed) = 2 /\ IsDecimal(seed[2])
                      THEN add_peer(reg, Peer(seed[1], ParseInt(seed[2])))
                      ELSE reg
         IN  discover_peers(after, Tail(seed_nodes))

(* Peer.to_dict / Peer.from_dict *)
peer_to_dict(p) == p
peer_from_dict(data) ==
    [host |-> data.host, port |-> data.port,
     last_seen |-> IF "last_seen" \in DOMAIN data THEN data.last_seen ELSE 0,
     connected |-> IF "connected" \in DOMAIN data THEN data.connected ELSE FALSE]

(* the keys from_dict reads with data[...]: a dict without one raises KeyError *)
PeerRequiredKeys == {"host", "port"}
TxRequiredKeys == {"sender", "receiver", "amount", "timestamp"}
BlockRequiredKeys == {"transactions", "index", "previous_hash", "timestamp", "nonce"}

tx_from_dict_raises(data) == ~(TxRequiredKeys \subseteq DOMAIN data)

block_from_dict_raises(data) ==
    \/ ~("transactions" \in DOMAIN data)
    \/ \E i \in 1..Len(data.transactions) : tx_from_dict_raises(data.transactions[i])
    \/ ~(BlockRequiredKeys \subseteq DOMAIN data)

(* ----------------------- BlockchainNode, sending ---------------------- *)
(* what becomes of an outbound connection: it is opened and the message is *)
(* written ("ok"), open_connection raises ("refused"), the write raises on *)
(* the open connection ("reset"), or the read of a reply runs into the     *)
(* 5 s limit of wait_for ("timeout")                                       *)
Outcomes == {"ok", "refused", "reset"}

(* one message handed to the network.  via: the writer of the connection   *)
(* the request came on, or a connection opened for this message; open: the *)
(* connection opened for it was not closed when the attempt ended          *)
Attempt(key, type, data, outcome) ==
    [to |-> key, via |-> "open_connection", type |-> type, data |-> data,
     outcome |-> outcome, open |-> outcome \in {"reset", "timeout"}]

(* BlockchainNode.send_message on the writer of peer key's connection *)
Reply(key, type, data) ==
    [to |-> key, via |-> "writer", type |-> type, data |-> data,
     outcome |-> "ok", open |-> TRUE]

(* the networks a call may meet: an outcome for every connected peer *)
Networks(reg) == [KnownKeys(get_connected_peers(reg)) -> Outcomes]

(* the network in which every connected peer can be reached *)
OkNetwork(reg) == [k \in KnownKeys(get_connected_peers(reg)) |-> "ok"]

(* the networks that make a difference to a handler that sends what sent   *)
(* holds when every peer can be reached: all of them when it opens         *)
(* connections, one when it does not                                       *)
NetworksFor(reg, sent) ==
    IF \E i \in 1..Len(sent) : sent[i].via = "open_connection"
    THEN Networks(reg) ELSE {OkNetwork(reg)}

broadcast_message_StopsAtFailure(reg, type, data, net) ==
    LET connected == get_connected_peers(reg)
        Failed(i) == net[PeerKey(connected[i])] # "ok"
        n == IF \E i \in 1..Len(connected) : Failed(i)
             THEN CHOOSE i \in 1..Len(connected) :
                     Failed(i) /\ \A j \in 1..(i - 1) : ~Failed(j)
             ELSE Len(connected)
    IN  [i \in 1..n |-> Attempt(PeerKey(connected[i]), type, data, net[PeerKey(connected[i])])]

(* BlockchainNode.broadcast_message: an attempt per connected peer, in the *)
(* order of the registry; an exception is logged and the loop goes on      *)
broadcast_message(reg, type, data, net) ==
    LET connected == get_connected_peers(reg)
    IN  [i \in 1..Len(connected) |->
            Attempt(PeerKey(connected[i]), type, data, net[PeerKey(connected[i])])]

broadcast_transaction(reg, tx, net) ==
    broadcast_message(reg, "new_transaction", tx_to_dict(tx), net)

broadcast_block(reg, b, net) ==
    broadcast_message(reg, "new_block", block_to_dict(b), net)

(* ------------------------------ inputs -------------------------------- *)
Range(s) == {s[i] : i \in 1..Len(s)}

(* Wallet._generate_address: the address that belongs to a key pair *)
AddressOf(k) == IF k = "kA" THEN AddrA ELSE IF k = "kB" THEN AddrB ELSE AddrC

OtherAddress(a) == IF a = AddrA THEN AddrB ELSE AddrA

(* a transaction built and signed as the wallet's send command does, by key k *)
SignedTx(sender, receiver, amount, fee, timestamp, k) ==
    LET tx == Transaction(sender, receiver, amount, fee, timestamp, NoSignature,
                          public_key_hex(k), timestamp)
    IN  [tx EXCEPT !.signature = ecdsa_sign(k, calculate_txid(tx))]

UnsignedTx(sender, receiver, amount, fee, timestamp) ==
    Transaction(sender, receiver, amount, fee, timestamp, NoSignature, None, timestamp)

(* transactions a wallet or a peer may submit: signed by the sender's key  *)
(* for nothing or for a whole funding, with or without a fee; signed by    *)
(* somebody else's key; unsigned; to a malformed address                   *)
TxInputs ==
    {SignedTx(AddressOf(k), OtherAddress(AddressOf(k)), a, f, 1, k) :
        k \in {"kA", "kB"}, a \in {0, MaxAmount}, f \in 0..1}
    \cup {SignedTx(AddrA, AddrB, 1, 0, 1, "kB")}
    \cup {UnsignedTx(s, OtherAddress(s), MaxAmount, 0, 1) : s \in {AddrA, AddrB}}
    \cup {SignedTx(AddrA, ShortAddr, 1, 0, 1, "kA")}

(* a coinbase as a peer's block carries it *)
PeerCoinbase == Transaction(Sentinel, AddrB, BaseReward, 0, 1, NoSignature, None, 1)

(* transaction lists of a peer's block: none, two signed transfers, a signed *)
(* transfer followed by an unsigned one, an unsigned one, a coinbase         *)
BlockTxInputs ==
    {<<>>,
     <<SignedTx(AddrC, AddrA, MaxAmount, 0, 1, "kC"),
       SignedTx(AddrC, AddrB, MaxAmount, 0, 1, "kC")>>,
     <<SignedTx(AddrC, AddrA, MaxAmount, 0, 1, "kC"),
       UnsignedTx(AddrC, AddrB, MaxAmount, 0, 1)>>,
     <<UnsignedTx(AddrC, AddrA, MaxAmount, 0, 1)>>,
     <<PeerCoinbase>>}

(* block dicts a peer may send on top of chain c: at the next index or at *)
(* index 0, linked to the tip or not, with or without proof of work       *)
BlockInputs(c) ==
    {d \in [index : {Len(c), 0},
            timestamp : {1},
            transactions : BlockTxInputs,
            previous_hash : {get_latest_block(c).hash, GenesisPreviousHash},
            nonce : {0},
            difficulty : 0..1,
            hash : {<<>>}] :
        (d.index = Len(c) /\ d.difficulty = 0) \/ d.transactions = <<>>}

(* ------------------------------ actions ------------------------------- *)
AddTransaction_Prepends(tx) ==
    LET r == add_transaction(chain, pending_transactions, tx)
    IN  /\ pending_transactions' = IF r.ret = "True" THEN <<tx>> \o pending_transactions
                                   ELSE pending_transactions
        /\ last_call' = Call("add_transaction", r.ret, tx \in Range(pending_transactions))
        /\ UNCHANGED <<chain, difficulty, mining_reward, db, restarts, peers, connections>>
        /\ outbound' = <<>>

(* Blockchain.add_transaction called on the node's chain manager *)
AddTransaction(tx) ==
    LET r == add_transaction(chain, pending_transactions, tx)
    IN  /\ pending_transactions' = r.pending
        /\ last_call' = Call("add_transaction", r.ret, tx \in Range(pending_transactions))
        /\ UNCHANGED <<chain, difficulty, mining_reward, db, restarts, peers, connections>>
        /\ outbound' = <<>>

MinePendingTransactions_ClearsOnReject(miner_address, now, timeout) ==
    LET reward == get_mining_reward(Len(chain))
        coinbase_tx == Transaction(Sentinel, miner_address, reward, 0, 0, NoSignature, None, now)
        new_block == Block(Len(chain), <<coinbase_tx>> \o pending_transactions,
                           get_latest_block(chain).hash, 0, 0, difficulty, now)
        loops == ~HashPrefixIsZeros(new_block.hash, difficulty)
        timed_out == loops /\ (timeout \/ ~CanMine(difficulty))
        r == add_block(chain, db, mine_loop(new_block, difficulty))
    IN  /\ Len(chain) < MaxChain
        /\ timeout => loops
        /\ mining_reward' = reward
        /\ UNCHANGED <<restarts, peers, connections>>
        /\ outbound' = <<>>
        /\ IF timed_out
           THEN /\ last_call' = Call("mine_pending_transactions", "None", FALSE)
                /\ UNCHANGED <<chain, pending_transactions, difficulty, db>>
           ELSE /\ chain' = r.chain
                /\ db' = r.db
                /\ pending_transactions' = <<>>
                /\ difficulty' = calculate_difficulty(r.chain, difficulty)
                /\ last_call' = Call("mine_pending_transactions",
                                     IF r.ret = "True" THEN "Block" ELSE "None", FALSE)

(* Blockchain.mine_pending_transactions; timeout: the 300 s bound cuts the loop *)
MinePendingTransactions(miner_address, now, timeout) ==
    LET reward == get_mining_reward(Len(chain))
        coinbase_tx == Transaction(Sentinel, miner_address, reward, 0, 0, NoSignature, None, now)
        new_block == Block(Len(chain), <<coinbase_tx>> \o pending_transactions,
                           get_latest_block(chain).hash, 0, 0, difficulty, now)
        loops == ~HashPrefixIsZeros(new_block.hash, difficulty)
        timed_out == loops /\ (timeout \/ ~CanMine(difficulty))
        r == add_block(chain, db, mine_loop(new_block, difficulty))
    IN  /\ Len(chain) < MaxChain
        /\ timeout => loops
        /\ mining_reward' = reward
        /\ UNCHANGED <<restarts, peers, connections>>
        /\ outbound' = <<>>
        /\ IF timed_out
           THEN /\ last_call' = Call("mine_pending_transactions", "None", FALSE)
                /\ UNCHANGED <<chain, pending_transactions, difficulty, db>>
           ELSE IF r.ret = "True"
                THEN /\ chain' = r.chain
                     /\ db' = r.db
                     /\ pending_transactions' = <<>>
                     /\ difficulty' = calculate_difficulty(r.chain, difficulty)
                     /\ last_call' = Call("mine_pending_transactions", "Block", FALSE)
                ELSE /\ last_call' = Call("mine_pending_transactions", "None", FALSE)
                     /\ UNCHANGED <<chain, pending_transactions, difficulty, db>>

(* the node stops and Blockchain.__init__ runs again on the same store, which *)
(* since the first construction holds at least one row                       *)
Restart(d, now) ==
    LET loaded == load_all_blocks(db, now)
        genesis_block == create_genesis_block(d, now)
    IN  /\ restarts < MaxRestarts
        /\ restarts' = restarts + 1
        /\ peers' = <<>>
        /\ connections' = {}
        /\ outbound' = <<>>
        /\ difficulty' = d
        /\ pending_transactions' = <<>>
        /\ mining_reward' = BaseReward
        /\ IF loaded = <<>>
           THEN /\ chain' = <<genesis_block>>
                /\ db' = save_block(db, genesis_block)
           ELSE /\ chain' = loaded
                /\ db' = db
        /\ last_call' = Call("__init__", "None", FALSE)

(* BlockchainNode.handle_new_block *)
handle_new_block_AlwaysRelays(c, store, reg, data, now, net) ==
    LET block == block_from_dict(data, now)
        r == add_block(c, store, block)
    IN  [chain |-> r.chain, db |-> r.db, ret |-> r.ret,
         sent |-> broadcast_block(reg, block, net)]

handle_new_block(c, store, reg, data, now, net) ==
    LET block == block_from_dict(data, now)
        r == add_block(c, store, block)
    IN  [chain |-> r.chain, db |-> r.db, ret |-> r.ret,
         sent |-> IF r.ret = "True" THEN broadcast_block(reg, block, net) ELSE <<>>]

(* BlockchainNode.handle_new_transaction *)
handle_new_transaction(c, pending, reg, data, now, net) ==
    LET tx == tx_from_dict(data, now)
        r == add_transaction(c, pending, tx)
    IN  [pending |-> r.pending, ret |-> r.ret,
         sent |-> IF r.ret = "True" THEN broadcast_transaction(reg, tx, net) ELSE <<>>]

(* a new_block message is handled *)
HandleNewBlock(data, now) ==
    \E net \in Networks(peers) :
        LET r == handle_new_block(chain, db, peers, data, now, net)
        IN  /\ Len(chain) < MaxChain
            /\ chain' = r.chain
            /\ db' = r.db
            /\ outbound' = r.sent
            /\ last_call' = Call("handle_new_block", r.ret, FALSE)
            /\ UNCHANGED <<pending_transactions, difficulty, mining_reward, restarts,
                           peers, connections>>

(* a new_transaction message is handled *)
HandleNewTransaction(data, now) ==
    \E net \in Networks(peers) :
        LET r == handle_new_transaction(chain, pending_transactions, peers, data, now, net)
        IN  /\ pending_transactions' = r.pending
            /\ outbound' = r.sent
            /\ last_call' = Call("handle_new_transaction", r.ret, FALSE)
            /\ UNCHANGED <<chain, db, difficulty, mining_reward, restarts,
                           peers, connections>>

handle_get_blocks_Unlimited(c, start_height) ==
    LET blocks == SubSeq(c, start_height + 1, Len(c))
    IN  [i \in 1..Len(blocks) |-> block_to_dict(blocks[i])]

(* BlockchainNode.handle_get_blocks, as the peer that holds chain c answers it *)
handle_get_blocks(c, start_height) ==
    LET last == IF start_height + GetBlocksLimit < Len(c)
                THEN start_height + GetBlocksLimit ELSE Len(c)
        blocks == SubSeq(c, start_height + 1, last)
    IN  [i \in 1..Len(blocks) |-> block_to_dict(blocks[i])]

(* self.blockchain.replace_chain(new_chain): class Blockchain defines no such *)
(* method, the attribute lookup raises AttributeError                         *)
replace_chain(c, store, new_chain) ==
    [chain |-> c, db |-> store, ret |-> "AttributeError"]

(* BlockchainNode.handle_blocks *)
handle_blocks(c, store, blocks_data, now) ==
    IF blocks_data = <<>> THEN [chain |-> c, db |-> store, ret |-> "None"]
    ELSE LET received_blocks == [i \in 1..Len(blocks_data) |->
                                    block_from_dict(blocks_data[i], now)]
         IN  IF Len(received_blocks) > 1
             THEN LET upto == IF received_blocks[1].index < Len(c)
                              THEN received_blocks[1].index ELSE Len(c)
                      new_chain == SubSeq(c, 1, upto) \o received_blocks
                  IN  replace_chain(c, store, new_chain)
             ELSE LET r == add_block(c, store, received_blocks[1])
                  IN  [chain |-> r.chain, db |-> r.db, ret |-> "None"]

(* BlockchainNode.handle_peers: the registry after the loop and the exception *)
(* that ended it, if any; peers added before the exception stay              *)
RECURSIVE handle_peers(_, _)
handle_peers(reg, peers_data) ==
    IF peers_data = <<>> THEN [peers |-> reg, ret |-> "None"]
    ELSE IF ~(PeerRequiredKeys \subseteq DOMAIN Head(peers_data))
         THEN [peers |-> reg, ret |-> "KeyError"]
         ELSE handle_peers(add_peer(reg, peer_from_dict(Head(peers_data))), Tail(peers_data))

(* BlockchainNode.__init__: host and port the node announces *)
NodeHost == "0.0.0.0"
NodePort == 8333

(* the exceptions a handler may end with *)
Exceptions == {"JSONDecodeError", "KeyError", "AttributeError"}

(* what handling one message does: the node's state after it, the messages *)
(* sent, the handler that ran and how it ended                             *)
Handled(c, store, pending, reg, sent, op, ret) ==
    [chain |-> c, db |-> store, pending |-> pending, peers |-> reg,
     sent |-> sent, op |-> op, ret |-> ret]

(* BlockchainNode.handle_message for a message of peer key's connection *)
handle_message(c, store, pending, reg, key, message, now, net) ==
    LET data == message.data
    IN  CASE message.type = "handshake" ->
                Handled(c, store, pending, reg,
                        <<Reply(key, "handshake",
                                [version |-> "1.0", best_height |-> Len(c) - 1,
                                 host |-> NodeHost, port |-> NodePort])>>,
                        "handle_handshake", "None")
          [] message.type = "get_blocks" ->
                LET start_height == IF "start_height" \in DOMAIN data
                                    THEN data.start_height ELSE 0
                IN  Handled(c, store, pending, reg,
                            <<Reply(key, "blocks",
                                    [blocks |-> handle_get_blocks(c, start_height)])>>,
                            "handle_get_blocks", "None")
          [] message.type = "blocks" ->
                LET blocks_data == IF "blocks" \in DOMAIN data THEN data.blocks ELSE <<>>
                IN  IF \E i \in 1..Len(blocks_data) : block_from_dict_raises(blocks_data[i])
                    THEN Handled(c, store, pending, reg, <<>>, "handle_blocks", "KeyError")
                    ELSE LET r == handle_blocks(c, store, blocks_data, now)
                         IN  Handled(r.chain, r.db, pending, reg, <<>>, "handle_blocks", r.ret)
          [] message.type = "new_transaction" ->
                IF tx_from_dict_raises(data)
                THEN Handled(c, store, pending, reg, <<>>, "handle_new_transaction", "KeyError")
                ELSE LET r == handle_new_transaction(c, pending, reg, data, now, net)
                     IN  Handled(c, store, r.pending, reg, r.sent,
                                 "handle_new_transaction", r.ret)
          [] message.type = "new_block" ->
                IF block_from_dict_raises(data)
                THEN Handled(c, store, pending, reg, <<>>, "handle_new_block", "KeyError")
                ELSE LET r == handle_new_block(c, store, reg, data, now, net)
                     IN  Handled(r.chain, r.db, pending, reg, r.sent,
                                 "handle_new_block", r.ret)
          [] message.type = "get_peers" ->
                Handled(c, store, pending, reg,
                        <<Reply(key, "peers",
                                [peers |-> [i \in 1..Len(reg) |->
                                               peer_to_dict(get_known_peers(reg)[i])]])>>,
                        "handle_get_peers", "None")
          [] message.type = "peers" ->
                LET peers_data == IF "peers" \in DOMAIN data THEN data.peers ELSE <<>>
                    r == handle_peers(reg, peers_data)
                IN  Handled(c, store, pending, r.peers, <<>>, "handle_peers", r.ret)
          [] OTHER ->
                Handled(c, store, pending, reg, <<>>, "handle_message", "None")

(* what arrives on a connection: bytes that are a JSON message, or are not *)
Message(type, data) == [json |-> TRUE, type |-> type, data |-> data]
NotJson == [json |-> FALSE]

(* one turn of the loop of handle_connection: json.loads, then handle_message *)
handle_data(c, store, pending, reg, key, raw, now, net) ==
    IF ~raw.json
    THEN Handled(c, store, pending, reg, <<>>, "handle_connection", "JSONDecodeError")
    ELSE handle_message(c, store, pending, reg, key, raw, now, net)

(* blocks a remote peer may hold on top of chain c, all linked to its tip: *)
(* empty or with an unsigned transaction, numbered by position or, empty,  *)
(* with index 0                                                            *)
PeerBlockInputs(c) ==
    {d \in [index : {Len(c), 0},
            timestamp : {1},
            transactions : {<<>>, <<UnsignedTx(AddrC, AddrA, MaxAmount, 0, 1)>>},
            previous_hash : {get_latest_block(c).hash},
            nonce : {0},
            difficulty : {0},
            hash : {<<>>}] :
        d.index = Len(c) \/ d.transactions = <<>>}

RECURSIVE Extensions(_, _)
Extensions(c, n) ==
    IF n = 0 THEN {c}
    ELSE {c} \cup UNION {Extensions(Append(c, block_from_dict(d, 1)), n - 1) :
                            d \in PeerBlockInputs(c)}

(* the chains the remote peer of a sync round may hold *)
PeerChains(c) ==
    UNION {Extensions(base, MaxPeerBlocks) :
              base \in {c, <<c[1]>>, <<create_genesis_block(DefaultDifficulty, MaxTime)>>}}

(* one round of BlockchainNode.sync_with_peers with a connected peer that *)
(* holds peer_chain; an exception of the handler is caught and logged     *)
SyncWithPeer(peer_chain, now) ==
    LET response == handle_get_blocks(peer_chain, Len(chain))
        r == handle_blocks(chain, db, response, now)
    IN  /\ Len(chain) < MaxChain
        /\ chain' = r.chain
        /\ db' = r.db
        /\ last_call' = Call("sync_with_peers", r.ret, FALSE)
        /\ UNCHANGED <<pending_transactions, difficulty, mining_reward, restarts, peers, connections>>
        /\ outbound' = <<>>

Next ==
    \/ \E tx \in TxInputs : AddTransaction(tx)
    \/ \E miner_address \in {AddrA, AddrB}, now \in Timestamps, timeout \in BOOLEAN :
          MinePendingTransactions(miner_address, now, timeout)
    \/ \E data \in BlockInputs(chain) : HandleNewBlock(data, MaxTime)
    \/ \E peer_chain \in PeerChains(chain) : SyncWithPeer(peer_chain, MaxTime)

Spec == Init /\ [][Next]_vars

(* --------------------------- the registry ----------------------------- *)
(* PeerManager's methods called on the node's registry *)
AddPeer(p) ==
    /\ peers' = add_peer(peers, p)
    /\ outbound' = <<>>
    /\ last_call' = Call("add_peer", "None", FALSE)
    /\ UNCHANGED <<chain, pending_transactions, difficulty, mining_reward, db, restarts,
                   connections>>

RemovePeer(p) ==
    /\ peers' = remove_peer(peers, p)
    /\ outbound' = <<>>
    /\ last_call' = Call("remove_peer", "None", FALSE)
    /\ UNCHANGED <<chain, pending_transactions, difficulty, mining_reward, db, restarts,
                   connections>>

UpdatePeerStatus(p, connected, now) ==
    /\ peers' = update_peer_status(peers, p, connected, now)
    /\ outbound' = <<>>
    /\ last_call' = Call("update_peer_status", "None", FALSE)
    /\ UNCHANGED <<chain, pending_transactions, difficulty, mining_reward, db, restarts,
                   connections>>

DiscoverPeers(seed_nodes) ==
    /\ peers' = discover_peers(peers, seed_nodes)
    /\ outbound' = <<>>
    /\ last_call' = Call("discover_peers", "None", FALSE)
    /\ UNCHANGED <<chain, pending_transactions, difficulty, mining_reward, db, restarts,
                   connections>>

(* peers as callers hand them in: fresh, or as a peers message describes them *)
PeerInputs ==
    {Peer(h, 8333) : h \in {"h1", "h2", "h3"}}
    \cup {[Peer("h1", 8334) EXCEPT !.connected = TRUE, !.last_seen = 1]}

(* seed lists, each seed split at ':': well-formed seeds, one of them twice, *)
(* and seeds without a port, with a port that is no number, of three parts   *)
SeedLists ==
    {<<<<"h1", "8333">>, <<"h2", "8334">>, <<"h1", "8333">>, <<"h3", "8333">>>>,
     <<<<"h4">>, <<"h4", "x">>, <<"h2", "8333">>, <<"h4", "8333", "0">>>>}

NextPeers ==
    \/ \E p \in PeerInputs : AddPeer(p)
    \/ \E p \in PeerInputs : RemovePeer(p)
    \/ \E p \in PeerInputs, connected \in BOOLEAN : UpdatePeerStatus(p, connected, MaxTime)
    \/ \E seed_nodes \in SeedLists : DiscoverPeers(seed_nodes)

(* the peer manager of the node, called in any order *)
SpecPeers == Init /\ [][NextPeers]_vars

(* ----------------------- connections and messages --------------------- *)
(* handle_connection up to its loop: a peer connected to the server *)
Accept(p, now) ==
    /\ PeerKey(p) \notin connections
    /\ connections' = connections \cup {PeerKey(p)}
    /\ peers' = update_peer_status(add_peer(peers, p), p, TRUE, now)
    /\ outbound' = <<>>
    /\ last_call' = Call("handle_connection", "None", FALSE)
    /\ UNCHANGED <<chain, pending_transactions, difficulty, mining_reward, db, restarts>>

(* the peer closed its end: read returns no data, the loop ends, finally runs *)
Disconnect(p, now) ==
    /\ PeerKey(p) \in connections
    /\ connections' = connections \ {PeerKey(p)}
    /\ peers' = update_peer_status(peers, p, FALSE, now)
    /\ outbound' = <<>>
    /\ last_call' = Call("handle_connection", "closed", FALSE)
    /\ UNCHANGED <<chain, pending_transactions, difficulty, mining_reward, db, restarts>>

Receive_KeepsOpenOnError(p, raw, now) ==
    /\ PeerKey(p) \in connections
    /\ \E net \in NetworksFor(peers, handle_data(chain, db, pending_transactions, peers,
                                                 PeerKey(p), raw, now, OkNetwork(peers)).sent) :
           LET r == handle_data(chain, db, pending_transactions, peers, PeerKey(p), raw, now, net)
           IN  /\ r.chain = chain \/ Len(chain) < MaxNetChain
               /\ chain' = r.chain
               /\ db' = r.db
               /\ pending_transactions' = r.pending
               /\ outbound' = r.sent
               /\ last_call' = Call(r.op, r.ret, FALSE)
               /\ connections' = connections
               /\ peers' = r.peers
               /\ UNCHANGED <<difficulty, mining_reward, restarts>>

(* data arrives on the connection of peer p: one turn of the loop of     *)
(* handle_connection; an exception ends the loop, marks p not connected *)
(* and closes the connection                                            *)
Receive(p, raw, now) ==
    /\ PeerKey(p) \in connections
    /\ \E net \in NetworksFor(peers, handle_data(chain, db, pending_transactions, peers,
                                                 PeerKey(p), raw, now, OkNetwork(peers)).sent) :
           LET r == handle_data(chain, db, pending_transactions, peers, PeerKey(p), raw, now, net)
               raised == r.ret \in Exceptions
           IN  /\ r.chain = chain \/ Len(chain) < MaxNetChain
               /\ chain' = r.chain
               /\ db' = r.db
               /\ pending_transactions' = r.pending
               /\ outbound' = r.sent
               /\ last_call' = Call(r.op, r.ret, FALSE)
               /\ connections' = IF raised THEN connections \ {PeerKey(p)} ELSE connections
               /\ peers' = IF raised THEN update_peer_status(r.peers, p, FALSE, now) ELSE r.peers
               /\ UNCHANGED <<difficulty, mining_reward, restarts>>

(* the handshake connect_to_peer sends *)
Handshake(c) ==
    [version |-> "1.0", best_height |-> Len(c) - 1, host |-> NodeHost, port |-> NodePort]

(* BlockchainNode.connect_to_peer, for a peer of the registry (discover_peers) *)
(* or any other (start_node); on success the connection stays open and        *)
(* handle_connection serves it, registering the peer it is connected to       *)
ConnectToPeer(p, outcome, now) ==
    LET connected == update_peer_status(peers, p, TRUE, now)
    IN  /\ PeerKey(p) \notin connections
        /\ outbound' = <<[Attempt(PeerKey(p), "handshake", Handshake(chain), outcome)
                            EXCEPT !.open = outcome # "refused"]>>
        /\ last_call' = Call("connect_to_peer", "None", FALSE)
        /\ IF outcome = "ok"
           THEN /\ peers' = update_peer_status(add_peer(connected, p), p, TRUE, now)
                /\ connections' = connections \cup {PeerKey(p)}
           ELSE /\ peers' = update_peer_status(IF outcome = "refused" THEN peers ELSE connected,
                                               p, FALSE, now)
                /\ connections' = connections
        /\ UNCHANGED <<chain, pending_transactions, difficulty, mining_reward, db, restarts>>

(* how the request of a sync round may end: as a broadcast may, or with the *)
(* 5 s limit on the read of the reply                                      *)
SyncOutcomes == Outcomes \cup {"timeout"}

(* BlockchainNode.sync_with_peers, the turn of its loop for the connected *)
(* peer key, which holds peer_chain; every exception is logged           *)
SyncWithConnectedPeer(key, outcome, peer_chain, now) ==
    /\ key \in KnownKeys(get_connected_peers(peers))
    /\ \E net \in {OkNetwork(peers)} :
           LET request == Attempt(key, "get_blocks", [start_height |-> Len(chain)], outcome)
               response == Message("blocks",
                                   [blocks |-> handle_get_blocks(peer_chain, Len(chain))])
               r == IF outcome = "ok"
                    THEN handle_message(chain, db, pending_transactions, peers, key,
                                        response, now, net)
                    ELSE Handled(chain, db, pending_transactions, peers, <<>>,
                                 "sync_with_peers", "None")
           IN  /\ r.chain = chain \/ Len(chain) < MaxNetChain
               /\ chain' = r.chain
               /\ db' = r.db
               /\ outbound' = <<[request EXCEPT !.open = @ \/ r.ret \in Exceptions]>>
               /\ last_call' = Call("sync_with_peers", r.ret, FALSE)
               /\ UNCHANGED <<pending_transactions, difficulty, mining_reward, restarts,
                           peers, connections>>

(* ---------------------- long chains and retargeting -------------------- *)
(* seconds between two blocks at which ten blocks span just under or exactly *)
(* half, and exactly or just over twice, the expected time                   *)
HalfPace == TargetBlockTime \div 2
DoublePace == 2 * TargetBlockTime
Paces == {HalfPace - 1, HalfPace, DoublePace, DoublePace + 1}

(* the dict of an empty block a peer made dt seconds after the tip of c *)
PacedBlock(c, dt) ==
    [index |-> Len(c), timestamp |-> get_latest_block(c).timestamp + dt,
     transactions |-> <<>>, previous_hash |-> get_latest_block(c).hash,
     nonce |-> 0, difficulty |-> 0, hash |-> <<>>]

(* a new_block message with such a block is handled, on a chain of less than *)
(* max_len blocks whose blocks all came at this pace                         *)
HandlePacedBlock(dt, max_len) ==
    \E net \in Networks(peers) :
        LET r == handle_new_block(chain, db, peers, PacedBlock(chain, dt), MaxTime, net)
        IN  /\ Len(chain) < max_len
            /\ IF Len(chain) = 1 THEN TRUE
               ELSE dt = chain[Len(chain)].timestamp - chain[Len(chain) - 1].timestamp
            /\ chain' = r.chain
            /\ db' = r.db
            /\ outbound' = r.sent
            /\ last_call' = Call("handle_new_block", r.ret, FALSE)
            /\ UNCHANGED <<pending_transactions, difficulty, mining_reward, restarts,
                           peers, connections>>

Retarget_Twice ==
    /\ difficulty' = calculate_difficulty(chain, calculate_difficulty(chain, difficulty))
    /\ outbound' = <<>>
    /\ last_call' = Call("calculate_difficulty", "int", FALSE)
    /\ UNCHANGED <<chain, pending_transactions, mining_reward, db, restarts, peers, connections>>

(* self.pow.difficulty = self.pow.calculate_difficulty(self.chain) *)
Retarget ==
    /\ difficulty' = calculate_difficulty(chain, difficulty)
    /\ outbound' = <<>>
    /\ last_call' = Call("calculate_difficulty", "int", FALSE)
    /\ UNCHANGED <<chain, pending_transactions, mining_reward, db, restarts, peers, connections>>

NextPow ==
    \/ \E dt \in Paces : HandlePacedBlock(dt, MaxPowChain)
    \/ Retarget
    \/ \E miner_address \in {AddrA}, timeout \in BOOLEAN :
          MinePendingTransactions(miner_address, MaxTime, timeout)

(* the node fed with paced blocks, retargeting on the chain it holds *)
SpecPow == Init /\ [][NextPow]_vars

(* --------------------------- the node's network ----------------------- *)
NetPeers == {Peer("h1", 8333), Peer("h2", 8333)}

(* a dict without the entry named key *)
Without(data, key) == [k \in DOMAIN data \ {key} |-> data[k]]

(* the block dicts of new_block messages: an empty block on the tip, a block *)
(* that funds two wallets, a block that is not linked to the tip             *)
NetBlockInputs(c) ==
    {PacedBlock(c, 1),
     [PacedBlock(c, 1) EXCEPT !.transactions =
         <<SignedTx(AddrC, AddrA, MaxAmount, 0, 1, "kC"),
           SignedTx(AddrC, AddrB, MaxAmount, 0, 1, "kC")>>],
     [PacedBlock(c, 1) EXCEPT !.previous_hash = GenesisPreviousHash]}

(* the same without a field from_dict reads, in the block or in a transaction *)
BrokenBlockInputs(c) ==
    {Without(PacedBlock(c, 1), "nonce"),
     [PacedBlock(c, 1) EXCEPT !.transactions =
         <<Without(SignedTx(AddrC, AddrA, MaxAmount, 0, 1, "kC"), "amount")>>]}

(* the transaction dicts of new_transaction messages: signed by the sender, *)
(* unsigned                                                                 *)
NetTxInputs ==
    {SignedTx(AddrA, AddrB, MaxAmount, 0, 1, "kA"),
     SignedTx(AddrB, AddrA, MaxAmount, 0, 1, "kB"),
     UnsignedTx(AddrA, AddrB, MaxAmount, 0, 1)}

BrokenTxInputs == {Without(SignedTx(AddrA, AddrB, MaxAmount, 0, 1, "kA"), "sender")}

(* the peers lists of peers messages, the second with a dict without a port *)
NetPeersLists ==
    {<<peer_to_dict(Peer("h2", 8333))>>,
     <<peer_to_dict(Peer("h1", 8333)), [host |-> "h2"]>>}

NextNet ==
    \/ \E p \in NetPeers : Accept(p, MaxTime)
    \/ \E p \in NetPeers : Disconnect(p, MaxTime)
    \/ \E p \in NetPeers, outcome \in Outcomes : ConnectToPeer(p, outcome, MaxTime)
    \/ \E p \in NetPeers, data \in NetBlockInputs(chain) \cup BrokenBlockInputs(chain) :
          Receive(p, Message("new_block", data), MaxTime)
    \/ \E p \in NetPeers, data \in NetTxInputs \cup BrokenTxInputs :
          Receive(p, Message("new_transaction", data), MaxTime)
    \/ \E p \in NetPeers,
          data \in {PacedBlock(chain, 1), Without(PacedBlock(chain, 1), "nonce")} :
          Receive(p, Message("blocks", [blocks |-> <<data>>]), MaxTime)
    \/ \E p \in NetPeers, peers_data \in NetPeersLists :
          Receive(p, Message("peers", [peers |-> peers_data]), MaxTime)
    \/ \E p \in NetPeers, type \in {"handshake", "get_peers", "ping"} :
          Receive(p, Message(type, <<>>), MaxTime)
    \/ \E p \in NetPeers : Receive(p, Message("get_blocks", [start_height |-> 0]), MaxTime)
    \/ \E p \in NetPeers : Receive(p, NotJson, MaxTime)
    \/ \E p \in NetPeers, outcome \in SyncOutcomes,
          peer_chain \in {chain, Append(chain, block_from_dict(PacedBlock(chain, 1), 1))} :
          SyncWithConnectedPeer(PeerKey(p), outcome, peer_chain, MaxTime)

(* the node with its server, its registry and its outbound connections *)
SpecNet == Init /\ [][NextNet]_vars

(* the heights a get_blocks request may name *)
StartHeights == {0, 1, 2, GetBlocksLimit, GetBlocksLimit + 1, MaxLongChain}

NextLong ==
    \/ HandlePacedBlock(HalfPace, MaxLongChain)
    \/ \E p \in {Peer("h1", 8333)} : Accept(p, MaxTime)
    \/ \E p \in {Peer("h1", 8333)}, start_height \in StartHeights :
          Receive(p, Message("get_blocks", [start_height |-> start_height]), MaxTime)
    \/ \E p \in {Peer("h1", 8333)} : Receive(p, Message("get_blocks", <<>>), MaxTime)

(* the node on a chain longer than one reply holds, asked for blocks *)
SpecLong == Init /\ [][NextLong]_vars

(* the node of Spec, stopped and constructed again on its store up to *)
(* MaxRestarts times                                                  *)
NextRestart ==
    \/ Next
    \/ \E d \in InitDifficulties : Restart(d, MaxTime)

SpecRestart == Init /\ [][NextRestart]_vars

TypeOK ==
    /\ Len(chain) \in 1..MaxChain
    /\ difficulty \in InitDifficulties

(* ============================== claims ================================ *)

(* C1: hash linkage.  In every reachable state chain[0].index = 0 and every *)
(* later block's previous_hash is the hash of the block before it.          *)
C1_HashLinkage ==
    /\ chain[1].index = 0
    /\ \A i \in 2..Len(chain) : chain[i].previous_hash = chain[i-1].hash

C1_Witness ==
    /\ Len(chain) >= 3
    /\ last_call.op = "handle_new_block"
    /\ last_call.ret = "True"

(* C2: index contiguity.  The block at position i of the chain (counted *)
(* from 0) has index i, blocks admitted from peer messages included.    *)
C2_IndexContiguity == \A i \in 1..Len(chain) : chain[i].index = i - 1

(* C3: proof of work.  Every block of the chain, the genesis block included, *)
(* carries the hash recomputed from its fields, and that hash begins with    *)
(* as many zeros as the block's own difficulty field says.                   *)
C3_ProofOfWork ==
    \A i \in 1..Len(chain) :
        /\ chain[i].hash = calculate_hash(chain[i])
        /\ HashPrefixIsZeros(chain[i].hash, chain[i].difficulty)

(* C4: signatures.  Every transaction of a chain block whose sender is not *)
(* the coinbase sentinel passes verify_signature.                          *)
C4_SignatureInvariant ==
    \A i \in 1..Len(chain) : \A j \in 1..Len(chain[i].transactions) :
        ~IsCoinbase(chain[i].transactions[j]) => verify_signature(chain[i].transactions[j])

C4_Witness ==
    /\ last_call.op = "handle_new_block"
    /\ \E i \in 2..Len(chain) : \E j \in 1..Len(chain[i].transactions) :
          ~IsCoinbase(chain[i].transactions[j])

OnePendingPerSender ==
    \A i, j \in 1..Len(pending_transactions) :
        i # j => pending_transactions[i].sender # pending_transactions[j].sender

Occurrences(pending, tx) == Cardinality({i \in 1..Len(pending) : pending[i] = tx})

Candidate(c, blocks_data) ==
    LET first == blocks_data[1].index
    IN  SubSeq(c, 1, IF first < Len(c) THEN first ELSE Len(c)) \o blocks_data

C8_ShortCandidateRefused ==
    [][\A peer_chain \in PeerChains(chain) :
          LET response == handle_get_blocks(peer_chain, Len(chain))
          IN  (/\ SyncWithPeer(peer_chain, MaxTime)
               /\ response # <<>>
               /\ Len(Candidate(chain, response)) <= Len(chain))
              => /\ last_call'.ret # "AttributeError"
                 /\ UNCHANGED <<chain, pending_transactions, db>>]_vars

(* C9: convergence on the longer chain.  After a sync round with a peer *)
(* whose chain is valid, starts with the node's genesis block and is    *)
(* longer, the node's chain has the peer's length and is valid; after a *)
(* round with a peer whose chain has an invalid block the node's chain  *)
(* is the one it had.                                                   *)
C9_SyncConverges ==
    [][\A peer_chain \in PeerChains(chain) :
          SyncWithPeer(peer_chain, MaxTime) =>
             /\ (/\ is_chain_valid(peer_chain)
                 /\ peer_chain[1] = chain[1]
                 /\ Len(peer_chain) > Len(chain))
                => (Len(chain') = Len(peer_chain) /\ is_chain_valid(chain'))
             /\ ~is_chain_valid(peer_chain) => chain' = chain]_vars

(* C10: mining with an empty mempool.  On a chain of length n with an empty *)
(* mempool, mine_pending_transactions(miner) that does not time out returns *)
(* a block of index n, the chain gets length n + 1, and the new block holds *)
(* exactly the coinbase from the sentinel to miner, of get_mining_reward(n) *)
(* coins.                                                                   *)
C10_MineEmptyMempool ==
    [][\A miner_address \in {AddrA, AddrB}, now \in Timestamps :
          (MinePendingTransactions(miner_address, now, FALSE) /\ pending_transactions = <<>>)
          => /\ last_call'.ret = "Block"
             /\ Len(chain') = Len(chain) + 1
             /\ LET b == chain'[Len(chain')]
                IN  /\ b.index = Len(chain)
                    /\ Len(b.transactions) = 1
                    /\ b.transactions[1].sender = Sentinel
                    /\ b.transactions[1].receiver = miner_address
                    /\ b.transactions[1].amount = get_mining_reward(Len(chain))]_vars

(* C11: coinbase validity.  Transaction.is_valid() is true of the coinbase  *)
(* mine_pending_transactions builds (sentinel sender, receiver of length    *)
(* 34, positive amount, no signature, no public_key), and the block mined   *)
(* on the tip with that coinbase as its only transaction is admitted by     *)
(* add_block.                                                               *)
C11_CoinbaseValid ==
    \A miner_address \in {AddrA, AddrB} :
        LET coinbase_tx == Transaction(Sentinel, miner_address, get_mining_reward(Len(chain)),
                                       0, 0, NoSignature, None, MaxTime)
            new_block == mine_loop(Block(Len(chain), <<coinbase_tx>>,
                                         get_latest_block(chain).hash, 0, 0, difficulty, MaxTime),
                                   difficulty)
        IN  /\ tx_is_valid(coinbase_tx)
            /\ block_is_valid(new_block, get_latest_block(chain))
            /\ add_block(chain, db, new_block).ret = "True"

(* C12: balance function.  get_balance(a) is the sum of amount over the     *)
(* chain transactions received by a minus the sum of amount + fee over the  *)
(* chain transactions sent by a; and after a miner's own transaction        *)
(* (miner -> X, amount, fee) is mined in a block the miner mines, the       *)
(* miner's balance is the old one minus amount + fee plus the reward, and   *)
(* X's balance is the old one plus amount (50 - 11 + 50 = 89 and 10).       *)
RECURSIVE ChainTransactions(_)
ChainTransactions(c) ==
    IF c = <<>> THEN <<>>
    ELSE ChainTransactions(SubSeq(c, 1, Len(c) - 1)) \o c[Len(c)].transactions

BalanceIsSum(c, a) ==
    LET txs == ChainTransactions(c)
        received == SumSeq([i \in 1..Len(txs) |->
                              IF txs[i].receiver = a THEN txs[i].amount ELSE 0])
        sent == SumSeq([i \in 1..Len(txs) |->
                          IF txs[i].sender = a THEN txs[i].amount + txs[i].fee ELSE 0])
    IN  get_balance(c, a) = received - sent

C12_BalanceFunction ==
    [][/\ \A a \in {AddrA, AddrB, AddrC, Sentinel} : BalanceIsSum(chain', a)
       /\ \A miner_address \in {AddrA, AddrB}, now \in Timestamps :
             (/\ MinePendingTransactions(miner_address, now, FALSE)
              /\ Len(pending_transactions) = 1
              /\ pending_transactions[1].sender = miner_address)
             => LET tx == pending_transactions[1]
                IN  /\ get_balance(chain', miner_address)
                          = get_balance(chain, miner_address) - (tx.amount + tx.fee)
                            + get_mining_reward(Len(chain))
                    /\ get_balance(chain', tx.receiver)
                          = get_balance(chain, tx.receiver) + tx.amount]_vars

(* C13: genesis.  Constructing a Blockchain on an empty store completes and *)
(* yields a chain of exactly one block, of index 0 and previous_hash "0",   *)
(* holding one transaction from the sentinel to the sentinel of amount 0,   *)
(* and the store holds that block; constructing a Blockchain on a store    *)
(* that holds blocks creates no genesis block: the chain is the stored one  *)
(* and the store keeps its rows.                                            *)
C13_Genesis ==
    /\ initialize_db = "None"
    /\ Len(chain) = 1
    /\ chain[1].index = 0
    /\ chain[1].previous_hash = GenesisPreviousHash
    /\ Len(chain[1].transactions) = 1
    /\ chain[1].transactions[1].sender = Sentinel
    /\ chain[1].transactions[1].receiver = Sentinel
    /\ chain[1].transactions[1].amount = 0
    /\ db = (0 :> block_to_dict(chain[1]))
    /\ [][\A d \in InitDifficulties :
             Restart(d, MaxTime) =>
                /\ chain' = load_all_blocks(db, MaxTime)
                /\ db' = db]_vars

(* transaction objects as Transaction(...) builds them, with the timestamp  *)
(* argument given or left to the clock, with or without public_key, and     *)
(* the same objects after sign(k)                                           *)
TxObjects ==
    LET built == {Transaction(AddrA, AddrB, MaxAmount, f, ts, NoSignature, pk, now) :
                     f \in 0..1, ts \in {0, 1}, pk \in {None, public_key_hex("kA")},
                     now \in Timestamps}
    IN  built \cup {sign(t, "kA") : t \in built}

(* C14: transaction round trip.  For every transaction t, signed or not,    *)
(* with or without public_key, Transaction.from_dict(t.to_dict()) has the   *)
(* sender, receiver, amount, fee, timestamp, public_key, signature and txid *)
(* of t, whatever the clock shows when from_dict runs.                      *)
C14_TxRoundTrip ==
    \A t \in TxObjects \cup Range(pending_transactions), now \in Timestamps :
        LET u == tx_from_dict(tx_to_dict(t), now)
        IN  /\ u.sender = t.sender
            /\ u.receiver = t.receiver
            /\ u.amount = t.amount
            /\ u.fee = t.fee
            /\ u.timestamp = t.timestamp
            /\ u.public_key = t.public_key
            /\ u.signature = t.signature
            /\ u.txid = t.txid

(* block objects as Block(...) builds them on the tip, before and after the *)
(* proof-of-work loop, from the transaction objects above                   *)
BlockObjects ==
    LET built == {Block(Len(chain), txs, get_latest_block(chain).hash, ts, 0, 1, now) :
                     txs \in {<<>>} \cup {<<t>> : t \in TxObjects},
                     ts \in {0, 1}, now \in Timestamps}
    IN  built \cup {mine_loop(b, 1) : b \in built}

(* C15: block round trip.  For every block b, Block.from_dict(b.to_dict())  *)
(* has the index, timestamp, previous_hash, nonce, difficulty, transactions *)
(* and hash of b.                                                           *)
C15_BlockRoundTrip ==
    \A b \in BlockObjects \cup Range(chain), now \in Timestamps :
        LET c == block_from_dict(block_to_dict(b), now)
        IN  /\ c.index = b.index
            /\ c.timestamp = b.timestamp
            /\ c.previous_hash = b.previous_hash
            /\ c.nonce = b.nonce
            /\ c.difficulty = b.difficulty
            /\ c.transactions = b.transactions
            /\ c.hash = b.hash

(* unsigned transactions as a wallet builds them before sign(k): without a  *)
(* public_key or with its own, to a well-formed or a malformed address, of  *)
(* a positive amount or of none                                             *)
SignInputs(k) ==
    {Transaction(AddressOf(k), r, a, f, 1, NoSignature, pk, 1) :
        r \in {OtherAddress(AddressOf(k)), ShortAddr}, a \in {0, MaxAmount}, f \in 0..1,
        pk \in {None, public_key_hex(k)}}

StructurallyValid(tx) ==
    /\ tx.amount > 0
    /\ tx.fee >= 0
    /\ Len(tx.sender) = AddressLength
    /\ Len(tx.receiver) = AddressLength

(* hex strings that do not decode to a key or to a signature *)
Undecodable == "zz"

C17_RestartEquivalence ==
    [][\A d \in InitDifficulties :
          Restart(d, MaxTime) =>
             /\ chain' = chain
             /\ \A i \in 1..Len(chain) : chain[i].hash \in {chain'[j].hash : j \in 1..Len(chain')}
             /\ pending_transactions' = <<>>]_vars

(* C18: block admission.  add_block(b) returns true exactly when b carries  *)
(* its recomputed hash, meets its proof of work, holds valid transactions   *)
(* only and is linked to the tip; then b is appended to the chain and saved *)
(* to the store; otherwise it returns false and the chain and the store     *)
(* keep their values; the mempool keeps its value in both cases.            *)
C18_BlockAdmission ==
    [][last_call'.op = "handle_new_block" =>
       \A data \in BlockInputs(chain) :
          HandleNewBlock(data, MaxTime) =>
             LET b == block_from_dict(data, MaxTime)
                 passes == /\ b.hash = calculate_hash(b)
                           /\ HashPrefixIsZeros(b.hash, b.difficulty)
                           /\ \A i \in 1..Len(b.transactions) : tx_is_valid(b.transactions[i])
                           /\ b.previous_hash = chain[Len(chain)].hash
             IN  /\ (last_call'.ret = "True") <=> passes
                 /\ passes => /\ chain' = Append(chain, b)
                              /\ b.index \in DOMAIN db'
                              /\ db'[b.index] = block_to_dict(b)
                              /\ \A i \in DOMAIN db \ {b.index} :
                                    i \in DOMAIN db' /\ db'[i] = db[i]
                 /\ ~passes => /\ last_call'.ret = "False"
                               /\ chain' = chain
                               /\ db' = db
                 /\ pending_transactions' = pending_transactions]_vars

C18_Witness ==
    /\ last_call.op = "handle_new_block"
    /\ last_call.ret = "True"
    /\ pending_transactions # <<>>
    /\ get_latest_block(chain).index \in DOMAIN db
    /\ db[get_latest_block(chain).index] = block_to_dict(get_latest_block(chain))

(* C19: failed mining preserves state.  When mine_pending_transactions      *)
(* returns no block, after a proof-of-work timeout or because add_block     *)
(* rejected the candidate, the chain, the store, the mempool (entries and   *)
(* order) and the difficulty keep their values.  A step of the operation is *)
(* one that leaves its name in last_call.                                   *)
C19_FailedMiningPreserves ==
    [][(last_call'.op = "mine_pending_transactions" /\ last_call'.ret = "None")
          => /\ chain' = chain
             /\ db' = db
             /\ pending_transactions' = pending_transactions
             /\ difficulty' = difficulty]_vars

C19_Witness ==
    /\ last_call.op = "mine_pending_transactions"
    /\ last_call.ret = "None"
    /\ Len(pending_transactions) = 2
    /\ Len(chain) = 2

C30_AddTransactionFrame ==
    [][last_call'.op = "add_transaction" =>
        /\ chain' = chain
        /\ db' = db
        /\ last_call'.ret \in {"True", "False"}
        /\ last_call'.ret = "False" => pending_transactions' = pending_transactions
        /\ \A tx \in TxInputs : AddTransaction(tx) =>
              /\ last_call'.ret = "False" <=>
                    \/ ~tx_is_valid(tx)
                    \/ get_balance(chain, tx.sender) < tx.amount + tx.fee
                    \/ \E i \in 1..Len(pending_transactions) :
                          pending_transactions[i].sender = tx.sender
              /\ last_call'.ret = "True" =>
                    pending_transactions' = Append(pending_transactions, tx)]_vars

(* a second sender's transaction was admitted behind the first one *)
C30_Witness ==
    /\ last_call.op = "add_transaction"
    /\ last_call.ret = "True"
    /\ Len(pending_transactions) = 2

(* heights around the first halving and around the height of the 1024th *)
RewardHeights ==
    {0, HalvingInterval - 1, HalvingInterval,
     FloatMaxExponent * HalvingInterval - 1, FloatMaxExponent * HalvingInterval}

(* C23: halving schedule.  get_mining_reward(h) has a value at every height  *)
(* h, the value is 50 / 2 ^ floor(h / 210000) (50 before the first halving,  *)
(* 25 after it), never negative and non-increasing in h; the reward of the   *)
(* node's last mining call is such a value.                                  *)
C23_Halving ==
    /\ mining_reward \in {get_mining_reward(h) : h \in {0, HalvingInterval}}
    /\ \A h \in RewardHeights : ~get_mining_reward_raises(h)
    /\ \A h \in {0, HalvingInterval - 1} : get_mining_reward(h) = BaseReward
    /\ 2 * get_mining_reward(HalvingInterval) = BaseReward
    /\ \A h1, h2 \in {0, HalvingInterval - 1, HalvingInterval} :
          /\ get_mining_reward(h1) >= 0
          /\ h1 <= h2 => get_mining_reward(h2) <= get_mining_reward(h1)

Min(a, b) == IF a < b THEN a ELSE b
Max(a, b) == IF a > b THEN a ELSE b

(* the rule as the claim words it *)
RetargetRule(c, d) ==
    IF Len(c) <= AdjustmentInterval THEN d
    ELSE LET D == c[Len(c)].timestamp - c[Len(c) - AdjustmentInterval + 1].timestamp
             E == TargetBlockTime * (AdjustmentInterval - 1)
         IN  IF 2 * D < E THEN Min(d + 1, MaxDifficulty)
             ELSE IF D > 2 * E THEN Max(d - 1, 1)
             ELSE d

(* C21: retarget rule.  calculate_difficulty(chain) returns the current      *)
(* difficulty when len(chain) <= adjustment_interval; otherwise, with D the  *)
(* timestamp of the last block minus that of the first of the most recent    *)
(* adjustment_interval blocks and E = target_block_time *                    *)
(* (adjustment_interval - 1), it returns min(difficulty + 1, 256) if         *)
(* D < E / 2, max(difficulty - 1, 1) if D > 2 E, and the current difficulty  *)
(* otherwise.                                                                *)
C21_RetargetRule ==
    [][last_call'.op = "calculate_difficulty" =>
          difficulty' = RetargetRule(chain, difficulty)]_vars

(* the difficulty was raised up to the cap on a chain longer than the window *)
C21_Witness ==
    /\ last_call.op = "calculate_difficulty"
    /\ Len(chain) > AdjustmentInterval
    /\ difficulty = MaxDifficulty

C24_RegistryBound ==
    /\ [](Len(peers) <= max_peers)
    /\ [](\A i, j \in 1..Len(peers) : PeerKey(peers[i]) = PeerKey(peers[j]) => i = j)
    /\ [][/\ last_call'.op = "add_peer" =>
                \A p \in PeerInputs :
                    (AddPeer(p) /\ (Len(peers) >= max_peers
                                    \/ \E i \in 1..Len(peers) : PeerKey(peers[i]) = PeerKey(p)))
                    => peers' = peers
          /\ last_call'.op = "update_peer_status" =>
                \A p \in PeerInputs, connected \in BOOLEAN :
                    (UpdatePeerStatus(p, connected, MaxTime)
                     /\ \A i \in 1..Len(peers) : PeerKey(peers[i]) # PeerKey(p))
                    => peers' = peers]_vars

(* the registry is full after a call of add_peer, one of its peers connected *)
C24_Witness ==
    /\ last_call.op = "add_peer"
    /\ Len(peers) = max_peers
    /\ \E i \in 1..Len(peers) : peers[i].connected

(* the dicts of the blocks of c from height h on, in ascending order, limit *)
(* of them at most                                                         *)
BlocksFrom(c, h, limit) ==
    [i \in 1..Min(limit, Max(Len(c) - h, 0)) |-> block_to_dict(c[h + i])]

(* the reply to a get_blocks request for height h holds BlocksFrom(chain, h, *)
(* limit), and handling the request changes neither chain nor mempool        *)
GetBlocksReply(limit) ==
    last_call'.op = "handle_get_blocks" =>
        /\ chain' = chain
        /\ pending_transactions' = pending_transactions
        /\ Len(outbound') = 1
        /\ outbound'[1].type = "blocks"
        /\ \A h \in StartHeights :
              Receive(Peer("h1", 8333), Message("get_blocks", [start_height |-> h]), MaxTime)
              => outbound'[1].data.blocks = BlocksFrom(chain, h, limit)

(* C25 as stated: for a get_blocks request with start_height h the reply     *)
(* contains chain[h], chain[h+1], ... in ascending order, up to 100 blocks   *)
(* (all remaining blocks when fewer than 100 remain), and handling the       *)
(* request does not change the responder's chain or mempool.                 *)
C25_GetBlocksReply100 == [][GetBlocksReply(100)]_vars

(* C25 as amended: the same with up to 50 blocks (all remaining blocks when  *)
(* fewer than 50 remain).                                                    *)
C25_GetBlocksReply == [][GetBlocksReply(GetBlocksLimit)]_vars

(* a reply cut at the limit although more blocks remain *)
C25_Witness ==
    /\ last_call.op = "handle_get_blocks"
    /\ Len(outbound) = 1
    /\ Len(outbound[1].data.blocks) = GetBlocksLimit
    /\ Len(chain) > GetBlocksLimit + 1

ConnectedKeys(reg) == KnownKeys(get_connected_peers(reg))

(* C26: gossip gating.  A block or transaction received from a peer is sent  *)
(* on only if its admission returned true; a rejected one produces no        *)
(* outbound message and changes nothing in the node; an admitted one goes    *)
(* out as it was admitted.                                                   *)
C26_GossipGating ==
    [][last_call'.op \in {"handle_new_block", "handle_new_transaction"} =>
          /\ last_call'.ret # "True" => outbound' = <<>>
          /\ last_call'.ret = "False" =>
                UNCHANGED <<chain, db, pending_transactions, peers, connections>>
          /\ \A i \in 1..Len(outbound') :
                IF last_call'.op = "handle_new_block"
                THEN /\ outbound'[i].type = "new_block"
                     /\ Len(chain') = Len(chain) + 1
                     /\ outbound'[i].data = block_to_dict(chain'[Len(chain')])
                ELSE /\ outbound'[i].type = "new_transaction"
                     /\ Len(pending_transactions') = Len(pending_transactions) + 1
                     /\ outbound'[i].data =
                           tx_to_dict(pending_transactions'[Len(pending_transactions')])]_vars

(* a block was rejected while a peer was connected that a relay would go to *)
C26_Witness ==
    /\ last_call.op = "handle_new_block"
    /\ last_call.ret = "False"
    /\ ConnectedKeys(peers) # {}
    /\ outbound = <<>>

(* C27: broadcast delivery.  When an admitted block or transaction is sent   *)
(* on, every peer connected at the time of the call is sent the message      *)
(* once, nobody else is, and a failure towards one peer neither ends the     *)
(* handler with an exception nor keeps the message from the peers after it.  *)
C27_BroadcastDelivery ==
    [][(last_call'.op \in {"handle_new_block", "handle_new_transaction"}
        /\ last_call'.ret = "True") =>
          /\ \A key \in ConnectedKeys(peers) :
                Cardinality({i \in 1..Len(outbound') : outbound'[i].to = key}) = 1
          /\ \A i \in 1..Len(outbound') : outbound'[i].to \in ConnectedKeys(peers)
          /\ connections' = connections
          /\ peers' = peers]_vars

(* the first of two connected peers could not be reached, the second was *)
C27_Witness ==
    /\ last_call.op \in {"handle_new_block", "handle_new_transaction"}
    /\ last_call.ret = "True"
    /\ Len(outbound) = 2
    /\ outbound[1].outcome # "ok"
    /\ outbound[2].outcome = "ok"

(* C28: bad peer input is contained.  Data that is not valid JSON, a message *)
(* of an unknown type and a block or transaction dict with a field missing   *)
(* leave the chain, the mempool and the store as they were; the connection   *)
(* the data came on is closed after the first and the last, and every other  *)
(* connection stays open.                                                    *)
C28_BadInputContained ==
    [][/\ last_call'.ret \in {"JSONDecodeError", "KeyError"} =>
             /\ UNCHANGED <<chain, pending_transactions, db>>
             /\ \E key \in connections : connections' = connections \ {key}
       /\ last_call'.op = "handle_message" =>
             UNCHANGED <<chain, pending_transactions, db, connections, peers>>]_vars

(* a block dict with a field missing came on one of two open connections, on *)
(* a node that holds a block and a pending transaction                       *)
C28_Witness ==
    /\ last_call.op = "handle_new_block"
    /\ last_call.ret = "KeyError"
    /\ Cardinality(connections) = 1
    /\ Len(chain) = 2
    /\ pending_transactions # <<>>

(* C29: network failure handling.  When an outbound connection to a peer p,  *)
(* opened by connect_to_peer, by a sync round or by a broadcast, times out   *)
(* or fails, the connection is closed, p is marked not connected, and p's    *)
(* entry stays in the registry.                                              *)
C29_NetworkFailure ==
    [][\A i \in 1..Len(outbound') :
          (outbound'[i].via = "open_connection" /\ outbound'[i].outcome # "ok") =>
             /\ ~outbound'[i].open
             /\ outbound'[i].to \in KnownKeys(peers')
             /\ outbound'[i].to \notin ConnectedKeys(peers')]_vars

(* C31: txid consistency.  Every transaction of the mempool or of a chain    *)
(* block, and every transaction after sign(), carries the txid that is the   *)
(* hash of its current fields sender, receiver, amount, fee, timestamp and   *)
(* public_key, so the txid is the one a peer or the store derives from the   *)
(* serialised transaction.                                                   *)
C31_TxidConsistency ==
    /\ \A i \in 1..Len(pending_transactions) :
          pending_transactions[i].txid = calculate_txid(pending_transactions[i])
    /\ \A j \in 1..Len(chain) : \A i \in 1..Len(chain[j].transactions) :
          chain[j].transactions[i].txid = calculate_txid(chain[j].transactions[i])
    /\ \A t \in TxObjects, now \in Timestamps :
          LET s == sign(t, "kA")
          IN  /\ s.txid = calculate_txid(s)
              /\ tx_from_dict(tx_to_dict(s), now).txid = s.txid

(* the places of the chain's transactions: block position and position in it *)
ChainTxPlaces(c) ==
    UNION {{<<j, i>> : i \in 1..Len(c[j].transactions)} : j \in 1..Len(c)}

ChainTxids(c) == {c[pl[1]].transactions[pl[2]].txid : pl \in ChainTxPlaces(c)}

(* C32: a transaction is mined at most once.  No txid appears in two blocks  *)
(* of the chain or twice in one block, and a transaction that the chain      *)
(* contains is not admitted to the mempool again.                            *)
C32_MinedAtMostOnce ==
    /\ [](\A p, q \in ChainTxPlaces(chain) :
             chain[p[1]].transactions[p[2]].txid = chain[q[1]].transactions[q[2]].txid
             => p = q)
    /\ [][(last_call'.op \in {"add_transaction", "handle_new_transaction"}
           /\ last_call'.ret = "True") =>
             pending_transactions'[Len(pending_transactions')].txid \notin ChainTxids(chain)]_vars

(* C33: non-negative balances.  In every reachable state, whatever mining    *)
(* calls and peer blocks and transactions came before, the balance over the  *)
(* chain of every address other than the coinbase sentinel is at least 0.    *)
C33_NonNegativeBalances ==
    \A a \in {AddrA, AddrB, AddrC} : get_balance(chain, a) >= 0

(* the address of the key pair a transaction's public_key belongs to is its *)
(* sender                                                                   *)
SenderOwnsKey(tx) ==
    /\ tx.public_key \in PublicKeys
    /\ AddressOf(PrivateKeyOf(tx.public_key)) = tx.sender

(* C34: spending authorisation.  Every transaction of the mempool and every  *)
(* non-coinbase transaction of a chain block carries a public_key whose      *)
(* address is its sender: a transaction that names a as sender and is signed *)
(* with another address's key pair is admitted nowhere.                      *)
C34_SpendingAuthorisation ==
    /\ \A i \in 1..Len(pending_transactions) : SenderOwnsKey(pending_transactions[i])
    /\ \A j \in 1..Len(chain) : \A i \in 1..Len(chain[j].transactions) :
          ~IsCoinbase(chain[j].transactions[i]) => SenderOwnsKey(chain[j].transactions[i])

(* C35: peer blocks meet the node's difficulty.  A block that add_block     *)
(* admits has a difficulty field that is not lower than the node's current  *)
(* difficulty; a peer's block of difficulty 0 is rejected.                  *)
C35_BlocksMeetDifficulty ==
    [][Len(chain') > Len(chain) =>
          chain'[Len(chain')].difficulty >= difficulty]_vars

IsPrefix(s, t) == Len(s) <= Len(t) /\ SubSeq(t, 1, Len(s)) = s

(* C36: admitted blocks are immutable.  Without a restart, the chain before *)
(* a step is a prefix of the chain after it: no handler, sync round or      *)
(* mining call removes, reorders or alters an admitted block, and the chain *)
(* never gets shorter.                                                      *)
C36_AppendOnly == [][IsPrefix(chain, chain')]_vars

(* a sync round that proposed several blocks ended on a chain of admitted *)
(* blocks                                                                 *)
C36_Witness ==
    /\ last_call.op = "sync_with_peers"
    /\ last_call.ret = "AttributeError"
    /\ Len(chain) > 1

InMempool(tx, pending) == \E j \in 1..Len(pending) : pending[j] = tx

SentHandshake(sent, key) ==
    \E i \in 1..Len(sent) : sent[i].to = key /\ sent[i].type = "handshake"

(* C38: the handshake exchange ends.  When the node has just opened a     *)
(* connection to a peer and sent its handshake, the next thing it does on *)
(* that connection is not to send another handshake: the peer's answer is *)
(* not answered.                                                          *)
C38_HandshakeQuiesces ==
    [][\A key \in connections' :
          (/\ last_call.op = "connect_to_peer"
           /\ key \in connections
           /\ SentHandshake(outbound, key)
           /\ last_call'.op = "handle_handshake")
          => ~SentHandshake(outbound', key)]_vars

(* the node opening connections of its own while its registry fills *)
NextOutbound ==
    \/ \E p \in PeerInputs : AddPeer(p)
    \/ \E p \in PeerInputs, outcome \in Outcomes : ConnectToPeer(p, outcome, MaxTime)
    \/ \E p \in PeerInputs : Disconnect(p, MaxTime)

SpecOutbound == Init /\ [][NextOutbound]_vars

(* C39: outbound peers become sync targets.  When connect_to_peer has     *)
(* opened a connection to a peer, that peer is a connected peer of the    *)
(* registry, whether or not the registry knew it before, so the next sync *)
(* round contacts it.                                                     *)
C39_OutboundPeerIsSyncTarget ==
    [][\A key \in connections' \ connections :
          last_call'.op = "connect_to_peer"
          => key \in KnownKeys(get_connected_peers(peers'))]_vars

====
